---- MODULE Spec2Model ----
(***************************************************************************)
(* Model of libbitcoin-system's block header (src/chain/header.cpp):       *)
(* construction, wire codec, difficulty, the intrinsic checks (check) and  *)
(* the contextual checks (accept).                                         *)
(*                                                                         *)
(* 32-bit fields are naturals below 2^31 (the range TLC's integers cover); *)
(* 256-bit integers (uint256_t) are sequences of 32 base-256 digits, the   *)
(* least significant digit first, so that every operation keeps its width. *)
(* Digests (hash_digest) are sequences of 32 bytes in memory order.        *)
(***************************************************************************)
EXTENDS Integers, Sequences, FiniteSets, TLC

\* ---------------------------------------------------------------- bounds

\* The wall clock advances at most this many ticks in one behaviour.
MaxTicks == 1

\* Arithmetic assignments (+=, -=, *=) made to a scalar in one behaviour, at
\* most.
MaxSteps == 1

\* ------------------------------------------------------ program constants

\* sizeof(uint32_t), the width of version_, timestamp_, bits_ and nonce_.
uint32_size == 4

\* hash_size, the width of a hash_digest.
hash_size == 32

\* The number of base-256 digits of a uint256_t.
uint256_size == 32

\* sizeof(int64_t), the width of the integer a scalar is made from.
uint64_size == 8

\* ----------------------------------------------------------------- bytes

Zeros(n) == [i \in 1..n |-> 0]

null_hash == Zeros(hash_size)

Reverse(s) == [i \in 1..Len(s) |-> s[Len(s) + 1 - i]]

Pow256(k) == IF k = 0 THEN 1 ELSE IF k = 1 THEN 256 ELSE IF k = 2 THEN 65536 ELSE 16777216

\* ---------------------------------------------------------------- writer

\* The most significant byte first (used by the mutant of to_data).
write_4_bytes_big_endian(sink, v) ==
    sink \o [i \in 1..uint32_size |-> (v \div Pow256(uint32_size - i)) % 256]

\* writer::write_4_bytes_little_endian: the least significant byte first.
write_4_bytes_little_endian(sink, v) ==
    sink \o [i \in 1..uint32_size |-> (v \div Pow256(i - 1)) % 256]

\* writer::write_bytes: the bytes as they are, no byte swap.
write_bytes(sink, bytes) == sink \o bytes

\* ---------------------------------------------------------------- reader

\* A reader over a byte sequence: the bytes, the number consumed, and the
\* stream state, which a read past the end clears for good.
reader(data) == [data |-> data, pos |-> 0, valid |-> TRUE]

\* reader::read_bytes(n): the next n bytes; when fewer remain, those that do
\* followed by zero padding, and the reader is invalid from then on.
read_bytes(source, n) ==
    LET avail == Len(source.data) - source.pos
        ok    == source.valid /\ avail >= n
        got   == IF ~source.valid THEN 0 ELSE IF avail >= n THEN n ELSE avail
    IN  [value  |-> [i \in 1..n |-> IF i <= got THEN source.data[source.pos + i] ELSE 0],
         source |-> [data |-> source.data, pos |-> source.pos + got, valid |-> ok]]

\* The value of four bytes read least significant first.
from_little_endian(b) == b[1] + 256 * b[2] + 65536 * b[3] + 16777216 * b[4]

read_4_bytes_little_endian(source) ==
    LET r == read_bytes(source, uint32_size)
    IN  [value |-> from_little_endian(r.value), source |-> r.source]

read_hash(source) == read_bytes(source, hash_size)

\* ---------------------------------------------------------------- header

\* header::header(version, previous_block_hash, merkle_root, timestamp,
\* bits, nonce, valid), the protected constructor every other one delegates to.
header(version, previous_block_hash, merkle_root, timestamp, bits, nonce, valid) ==
    [version_ |-> version, previous_block_hash_ |-> previous_block_hash,
     merkle_root_ |-> merkle_root, timestamp_ |-> timestamp, bits_ |-> bits,
     nonce_ |-> nonce, valid_ |-> valid]

\* header::header(): all fields zero, not valid.
header_default == header(0, null_hash, null_hash, 0, 0, 0, FALSE)

\* header::header(version, ..., nonce): the public constructor, valid.
header_fields(version, previous_block_hash, merkle_root, timestamp, bits, nonce) ==
    header(version, previous_block_hash, merkle_root, timestamp, bits, nonce, TRUE)

\* The mutant of header_equal: the valid flags are compared as well.
header_equal_with_valid(a, b) == a = b

\* header::operator==: the six fields, not the valid flag.
header_equal(a, b) ==
    /\ a.version_ = b.version_
    /\ a.previous_block_hash_ = b.previous_block_hash_
    /\ a.merkle_root_ = b.merkle_root_
    /\ a.timestamp_ = b.timestamp_
    /\ a.bits_ = b.bits_
    /\ a.nonce_ = b.nonce_

\* header::operator!=.
header_not_equal(a, b) == ~header_equal(a, b)

\* The mutant of header_copy: the copy is marked valid.
header_copy_valid(source) ==
    header(source.version_, source.previous_block_hash_, source.merkle_root_,
           source.timestamp_, source.bits_, source.nonce_, TRUE)

\* header::header(const header&).
header_copy(source) ==
    header(source.version_, source.previous_block_hash_, source.merkle_root_,
           source.timestamp_, source.bits_, source.nonce_, source.valid_)

\* header::header(header&&): the digests are arrays, which a move copies.
header_move(source) ==
    header(source.version_, source.previous_block_hash_, source.merkle_root_,
           source.timestamp_, source.bits_, source.nonce_, source.valid_)

\* header::operator=(const header&): every member is assigned.
copy_assign(self, source) ==
    [self EXCEPT !.version_ = source.version_,
                 !.previous_block_hash_ = source.previous_block_hash_,
                 !.merkle_root_ = source.merkle_root_,
                 !.timestamp_ = source.timestamp_,
                 !.bits_ = source.bits_,
                 !.nonce_ = source.nonce_,
                 !.valid_ = source.valid_]

\* header::operator=(header&&).
move_assign(self, source) ==
    [self EXCEPT !.version_ = source.version_,
                 !.previous_block_hash_ = source.previous_block_hash_,
                 !.merkle_root_ = source.merkle_root_,
                 !.timestamp_ = source.timestamp_,
                 !.bits_ = source.bits_,
                 !.nonce_ = source.nonce_,
                 !.valid_ = source.valid_]

\* The mutant of from_data: the decode path marks every header valid.
from_data_always_valid(source) ==
    LET r1 == read_4_bytes_little_endian(source)
        r2 == read_hash(r1.source)
        r3 == read_hash(r2.source)
        r4 == read_4_bytes_little_endian(r3.source)
        r5 == read_4_bytes_little_endian(r4.source)
        r6 == read_4_bytes_little_endian(r5.source)
    IN  header(r1.value, r2.value, r3.value, r4.value, r5.value, r6.value, TRUE)

\* The mutant of from_data: the two digests are read in the wrong order.
from_data_swapped(source) ==
    LET r1 == read_4_bytes_little_endian(source)
        r2 == read_hash(r1.source)
        r3 == read_hash(r2.source)
        r4 == read_4_bytes_little_endian(r3.source)
        r5 == read_4_bytes_little_endian(r4.source)
        r6 == read_4_bytes_little_endian(r5.source)
    IN  header(r1.value, r3.value, r2.value, r4.value, r5.value, r6.value,
               r6.source.valid)

\* header::from_data(reader&): the six reads in order (a braced list is
\* evaluated left to right), then the reader's own state as the valid flag.
from_data(source) ==
    LET r1 == read_4_bytes_little_endian(source)
        r2 == read_hash(r1.source)
        r3 == read_hash(r2.source)
        r4 == read_4_bytes_little_endian(r3.source)
        r5 == read_4_bytes_little_endian(r4.source)
        r6 == read_4_bytes_little_endian(r5.source)
    IN  header(r1.value, r2.value, r3.value, r4.value, r5.value, r6.value,
               r6.source.valid)

\* The mutant of to_data: the integers are written most significant byte first.
to_data_big_endian(self) ==
    LET s1 == write_4_bytes_big_endian(<<>>, self.version_)
        s2 == write_bytes(s1, self.previous_block_hash_)
        s3 == write_bytes(s2, self.merkle_root_)
        s4 == write_4_bytes_big_endian(s3, self.timestamp_)
        s5 == write_4_bytes_big_endian(s4, self.bits_)
    IN  write_4_bytes_big_endian(s5, self.nonce_)

\* header::to_data(writer&): the six writes in order.
to_data(self) ==
    LET s1 == write_4_bytes_little_endian(<<>>, self.version_)
        s2 == write_bytes(s1, self.previous_block_hash_)
        s3 == write_bytes(s2, self.merkle_root_)
        s4 == write_4_bytes_little_endian(s3, self.timestamp_)
        s5 == write_4_bytes_little_endian(s4, self.bits_)
    IN  write_4_bytes_little_endian(s5, self.nonce_)

\* header::serialized_size().
serialized_size == uint32_size + hash_size + hash_size + uint32_size + uint32_size + uint32_size

\* --------------------------------------------------------------- uint256_t

\* In this section a value that is used more than once is bound by a
\* quantifier or a set constructor over a singleton (x \in {e}), which
\* evaluates it once; a LET would evaluate it at every use.

\* Carry propagation over the digit places lo..hi of s, base 256, least
\* significant first: the digits and the carry out of place hi. The places
\* are taken by halves, the lower half first.
RECURSIVE propagate(_, _, _, _)
propagate(s, lo, hi, carry) ==
    IF lo > hi THEN [digits |-> <<>>, carry |-> carry]
    ELSE IF lo = hi
    THEN CHOOSE out \in { [digits |-> <<v % 256>>, carry |-> v \div 256] :
                          v \in {s[lo] + carry} } : TRUE
    ELSE CHOOSE out \in UNION {
             { [digits |-> low.digits \o high.digits, carry |-> high.carry] :
               high \in {propagate(s, (lo + hi) \div 2 + 1, hi, low.carry)} } :
             low \in {propagate(s, lo, (lo + hi) \div 2, carry)} } : TRUE

\* The digits of the number whose i-th digit place holds s[i] (any natural);
\* the carry out of the last digit is dropped (arithmetic modulo 256^Len(s)).
normalize(s, carry) ==
    CHOOSE out \in { propagate(x, 1, Len(x), carry).digits : x \in {s} } : TRUE

zero == Zeros(uint256_size)

one == [i \in 1..uint256_size |-> IF i = 1 THEN 1 ELSE 0]

is_zero(a) == \A i \in 1..Len(a) : a[i] = 0

\* a < b for two digit sequences of one length.
less(a, b) ==
    \E x \in {a}, y \in {b} :
        \E i \in 1..Len(x) : x[i] < y[i] /\ \A j \in (i + 1)..Len(x) : x[j] = y[j]

greater(a, b) == less(b, a)

\* add1: a + 1, wrapping to zero from the maximum.
add1(a) == normalize(a, 1)

\* operator~: the bitwise complement within the width.
bit_not(a) == [i \in 1..Len(a) |-> 255 - a[i]]

\* d * q for a single digit q, one digit longer than d.
mul_digit(d, q) ==
    normalize([i \in 1..(Len(d) + 1) |-> IF i <= Len(d) THEN d[i] * q ELSE 0], 0)

\* x - y for x >= y of one length.
subtract(x, y) == normalize([i \in 1..Len(x) |-> x[i] + 255 - y[i]], 1)

\* The largest digit q with d * q <= r, by bisection from the top bit.
RECURSIVE quotient_digit(_, _, _, _)
quotient_digit(d, r, q, bit) ==
    IF bit = 0 THEN q
    ELSE IF less(r, mul_digit(d, q + bit))
         THEN quotient_digit(d, r, q, bit \div 2)
         ELSE quotient_digit(d, r, q + bit, bit \div 2)

\* One step of long division on the running remainder r1, which has taken
\* the next digit of the dividend: the quotient digit and what remains.
divide_step(d, r1) ==
    IF less(r1, Append(d, 0)) THEN [digit |-> 0, remainder |-> SubSeq(r1, 1, Len(d))]
    ELSE
    CHOOSE s \in { [digit     |-> q,
                    remainder |-> SubSeq(subtract(r1, mul_digit(d, q)), 1, Len(d))] :
                   q \in {quotient_digit(d, r1, 0, 128)} } : TRUE

\* Long division over the digits hi down to lo of a, r the running remainder
\* coming in: the quotient digits of places lo..hi and the remainder going
\* out. The places are taken by halves, the upper half first.
RECURSIVE divide_from(_, _, _, _, _)
divide_from(a, d, lo, hi, r) ==
    IF lo = hi
    THEN CHOOSE out \in { [digits |-> <<s.digit>>, remainder |-> s.remainder] :
                          s \in { divide_step(d, r1) : r1 \in {<<a[lo]>> \o r} } } : TRUE
    ELSE CHOOSE out \in UNION {
             { [digits |-> low.digits \o high.digits, remainder |-> low.remainder] :
               low \in {divide_from(a, d, lo, (lo + hi) \div 2, high.remainder)} } :
             high \in {divide_from(a, d, (lo + hi) \div 2 + 1, hi, r)} } : TRUE

\* operator/: the quotient of two uint256_t, d # 0.
divide(a, d) ==
    CHOOSE out \in { divide_from(x, y, 1, Len(x), Zeros(Len(y))).digits :
                     x \in {a}, y \in {d} } : TRUE

\* a with zero digits added up to n digits.
widen(a, n) == [i \in 1..n |-> IF i <= Len(a) THEN a[i] ELSE 0]

\* The sum of a[i] * b[k + 1 - i] for i in lo..hi: the products that land
\* on digit place k, summed by halves.
RECURSIVE column(_, _, _, _, _)
column(a, b, k, lo, hi) ==
    IF lo > hi THEN 0
    ELSE IF lo = hi
    THEN (IF k + 1 - lo \in 1..Len(b) THEN a[lo] * b[k + 1 - lo] ELSE 0)
    ELSE column(a, b, k, lo, (lo + hi) \div 2)
         + column(a, b, k, (lo + hi) \div 2 + 1, hi)

\* a * b, of Len(a) + Len(b) digits.
product(a, b) ==
    CHOOSE out \in { normalize([k \in 1..(Len(x) + Len(y)) |-> column(x, y, k, 1, Len(x))], 0) :
                     x \in {a}, y \in {b} } : TRUE

\* a + b, one digit longer than a (Len(a) = Len(b)).
sum(a, b) ==
    CHOOSE out \in { normalize([i \in 1..(Len(x) + 1) |->
                                   IF i <= Len(x) THEN x[i] + y[i] ELSE 0], 0) :
                     x \in {a}, y \in {b} } : TRUE

\* a mod d, of Len(d) digits, d # 0.
remainder(a, d) ==
    CHOOSE out \in { IF Len(x) = Len(y) /\ less(x, y) THEN x
                     ELSE divide_from(x, y, 1, Len(x), Zeros(Len(y))).remainder :
                     x \in {a}, y \in {d} } : TRUE

\* ----------------------------------------------------------------- compact

\* The three fields of the compact form: exponent byte, sign bit, mantissa.
compact_exponent(bits) == bits \div \h01000000

compact_negative(bits) == (bits \div \h00800000) % 2 = 1

compact_mantissa(bits) == bits % \h00800000

\* The mantissa does not fit 256 bits once shifted by the exponent.
compact_overflow(bits) ==
    LET e == compact_exponent(bits)
        m == compact_mantissa(bits)
    IN  m # 0 /\ (e > 34 \/ (m > \hff /\ e > 33) \/ (m > \hffff /\ e > 32))

\* compact(bits): the target mantissa * 256^(exponent - 3) as a uint256_t
\* (digits shifted out at either end are lost), and the overflowed flag.
compact(bits) ==
    LET e == compact_exponent(bits)
        m == compact_mantissa(bits)
        digit(k) == IF k \in 0..2 THEN (m \div Pow256(k)) % 256 ELSE 0
    IN  [overflowed |-> compact_negative(bits) \/ compact_overflow(bits),
         value      |-> [i \in 1..uint256_size |-> digit(i - 1 - (e - 3))]]

\* -------------------------------------------------------------- difficulty

\* The mutant of difficulty: the divisor is the target, not the target + 1.
difficulty_no_add1(bits) ==
    LET header_bits == compact(bits)
        target  == header_bits.value
        divisor == target
    IN  IF header_bits.overflowed
        THEN [value |-> zero, target |-> target, divided |-> FALSE, divisor |-> zero]
        ELSE [value   |-> add1(IF is_zero(divisor) THEN zero
                               ELSE divide(bit_not(target), divisor)),
              target  |-> target,
              divided |-> TRUE,
              divisor |-> divisor]

\* The mutant of difficulty: the quotient is returned without the final + 1.
difficulty_no_final_add1(bits) ==
    LET header_bits == compact(bits)
        target  == header_bits.value
        divisor == add1(target)
    IN  IF header_bits.overflowed
        THEN [value |-> zero, target |-> target, divided |-> FALSE, divisor |-> zero]
        ELSE IF is_zero(divisor)
        THEN [value |-> zero, target |-> target, divided |-> FALSE, divisor |-> divisor]
        ELSE [value   |-> divide(bit_not(target), divisor),
              target  |-> target,
              divided |-> TRUE,
              divisor |-> divisor]

\* header::difficulty(bits): the value returned, with the target decoded,
\* whether the division ran and the divisor it ran with.
difficulty(bits) ==
    LET header_bits == compact(bits)
        target  == header_bits.value
        divisor == add1(target)
    IN  IF header_bits.overflowed
        THEN [value |-> zero, target |-> target, divided |-> FALSE, divisor |-> zero]
        ELSE IF is_zero(divisor)
        THEN [value |-> zero, target |-> target, divided |-> FALSE, divisor |-> divisor]
        ELSE [value   |-> add1(divide(bit_not(target), divisor)),
              target  |-> target,
              divided |-> TRUE,
              divisor |-> divisor]

\* ------------------------------------------------------------ collaborators

\* to_uint256(hash_digest): the digest read as a 256-bit big-endian integer.
to_uint256(digest) == Reverse(digest)

\* The digest whose integer value is v.
to_digest(v) == Reverse(v)

\* Four digests at the boundaries of the reference target (bits 0x1d00ffff):
\* the lowest value, the target itself, the target + 1 and the highest value.
proof_digests ==
    LET t == compact(\h1d00ffff).value
    IN  <<to_digest(zero), to_digest(t), to_digest(add1(t)), to_digest(bit_not(zero))>>

\* sha256_hash, an external primitive: a stand-in that is a function of its
\* input alone. A digest maps to one of the four boundary digests; any other
\* input maps to a digest that depends on the low byte of its last word.
sha256_hash(data) ==
    IF Len(data) = hash_size
    THEN proof_digests[(data[1] % 4) + 1]
    ELSE [i \in 1..hash_size |-> IF i = 1 THEN data[Len(data) - 3] % 4 ELSE 0]

\* scrypt_hash, an external primitive: a stand-in that is a function of its
\* input alone and differs from the double SHA-256 on every sample.
scrypt_hash(data) == proof_digests[4 - (data[Len(data) - 3] % 4)]

\* The mutant of hash: SHA-256 is applied once.
hash_once(self) == sha256_hash(to_data(self))

\* header::hash(): SHA-256 of the encoding, then SHA-256 of that digest.
hash(self) == sha256_hash(sha256_hash(to_data(self)))

\* chain_state::is_checkpoint_conflict(hash): the hash is among those the
\* chain state's checkpoints rule out.
is_checkpoint_conflict(state, digest) == digest \in state.conflicts

\* ------------------------------------------------------------------- check

\* The proof hash as an integer: the scrypt hash of the encoding when scrypt
\* is set, the content hash otherwise.
proof_hash(self, scrypt) ==
    to_uint256(IF scrypt THEN scrypt_hash(to_data(self)) ELSE hash(self))

\* The mutant of is_invalid_proof_of_work: a zero target is not rejected.
is_invalid_proof_of_work_zero_ok(self, proof_of_work_limit, scrypt, static) ==
    LET bits      == compact(self.bits_)
        pow_limit == IF static.set THEN static.value
                     ELSE compact(proof_of_work_limit).value
        target    == bits.value
        after     == [set |-> TRUE, value |-> pow_limit]
    IN  IF bits.overflowed
        THEN [result |-> TRUE, consulted |-> FALSE, static |-> after]
        ELSE IF greater(target, pow_limit)
        THEN [result |-> TRUE, consulted |-> FALSE, static |-> after]
        ELSE [result    |-> greater(proof_hash(self, scrypt), target),
              consulted |-> TRUE,
              static    |-> after]

\* header::is_invalid_proof_of_work(proof_of_work_limit, scrypt). static is
\* the function's local `static const pow_limit`: it is initialized from the
\* argument of the first call that reaches its declaration and keeps that
\* value afterwards. Returns the result, whether the proof hash was computed,
\* and the static after the call.
is_invalid_proof_of_work(self, proof_of_work_limit, scrypt, static) ==
    LET bits      == compact(self.bits_)
        pow_limit == IF static.set THEN static.value
                     ELSE compact(proof_of_work_limit).value
        target    == bits.value
        after     == [set |-> TRUE, value |-> pow_limit]
    IN  IF bits.overflowed
        THEN [result |-> TRUE, consulted |-> FALSE, static |-> after]
        ELSE IF less(target, one) \/ greater(target, pow_limit)
        THEN [result |-> TRUE, consulted |-> FALSE, static |-> after]
        ELSE [result    |-> greater(proof_hash(self, scrypt), target),
              consulted |-> TRUE,
              static    |-> after]

\* header::is_invalid_timestamp(timestamp_limit_seconds). static is the
\* function's local `static const two_hours`, initialized by the first call;
\* clock is wall_clock::now() in ticks, of which a second has ticks_per_second.
is_invalid_timestamp(self, timestamp_limit_seconds, static, clock, ticks_per_second) ==
    LET two_hours == IF static.set THEN static.value
                     ELSE timestamp_limit_seconds * ticks_per_second
        time      == self.timestamp_ * ticks_per_second
        future    == clock + two_hours
    IN  [result |-> time > future, static |-> [set |-> TRUE, value |-> two_hours]]

\* The mutant of check: the timestamp is checked before the proof of work.
check_timestamp_first(self, timestamp_limit_seconds, proof_of_work_limit, scrypt, pow_static, time_static, clock, ticks_per_second) ==
    LET ts  == is_invalid_timestamp(self, timestamp_limit_seconds, time_static,
                                    clock, ticks_per_second)
        pow == is_invalid_proof_of_work(self, proof_of_work_limit, scrypt, pow_static)
    IN  IF ts.result
        THEN [code |-> "futuristic_timestamp",
              pow_static |-> pow_static, time_static |-> ts.static]
        ELSE IF pow.result
        THEN [code |-> "invalid_proof_of_work",
              pow_static |-> pow.static, time_static |-> ts.static]
        ELSE [code |-> "success",
              pow_static |-> pow.static, time_static |-> ts.static]

\* header::check(timestamp_limit_seconds, proof_of_work_limit, scrypt): the
\* code returned and the two statics after the call (the timestamp check, and
\* with it the initialization of its static, is skipped when the proof of
\* work is invalid).
check(self, timestamp_limit_seconds, proof_of_work_limit, scrypt, pow_static, time_static, clock, ticks_per_second) ==
    LET pow == is_invalid_proof_of_work(self, proof_of_work_limit, scrypt, pow_static)
        ts  == is_invalid_timestamp(self, timestamp_limit_seconds, time_static,
                                    clock, ticks_per_second)
    IN  IF pow.result
        THEN [code |-> "invalid_proof_of_work",
              pow_static |-> pow.static, time_static |-> time_static]
        ELSE IF ts.result
        THEN [code |-> "futuristic_timestamp",
              pow_static |-> pow.static, time_static |-> ts.static]
        ELSE [code |-> "success",
              pow_static |-> pow.static, time_static |-> ts.static]

\* ------------------------------------------------------------------ accept

\* The mutant of accept: the version is checked before the checkpoints.
accept_version_first(self, state) ==
    IF self.version_ < state.minimum_block_version THEN "invalid_block_version"
    ELSE IF is_checkpoint_conflict(state, hash(self)) THEN "checkpoints_failed"
    ELSE IF self.timestamp_ <= state.median_time_past THEN "timestamp_too_early"
    ELSE IF self.bits_ # state.work_required THEN "incorrect_proof_of_work"
    ELSE "success"

\* header::accept(chain_state).
accept(self, state) ==
    IF is_checkpoint_conflict(state, hash(self)) THEN "checkpoints_failed"
    ELSE IF self.version_ < state.minimum_block_version THEN "invalid_block_version"
    ELSE IF self.timestamp_ <= state.median_time_past THEN "timestamp_too_early"
    ELSE IF self.bits_ # state.work_required THEN "incorrect_proof_of_work"
    ELSE "success"

\* ------------------------------------------------------------ curve backend

\* The order n of the secp256k1 group, least significant digit first.
ec_order ==
    Reverse(<< \hff, \hff, \hff, \hff, \hff, \hff, \hff, \hff,
               \hff, \hff, \hff, \hff, \hff, \hff, \hff, \hfe,
               \hba, \hae, \hdc, \he6, \haf, \h48, \ha0, \h3b,
               \hbf, \hd2, \h5e, \h8c, \hd0, \h36, \h41, \h41 >>)

\* An ec_secret is 32 bytes, big-endian; its number is the digits reversed.
to_number(secret) == Reverse(secret)

to_secret(digits) == Reverse(digits)

\* The revisions of the backend a build can link. "verifying" rejects a value
\* being modified that is zero or not below the order; "reducing" takes it
\* modulo the order. Both reject a tweak that is not below the order.
Backends == {"verifying", "reducing"}

\* The value being modified is acceptable to the backend.
ec_accepts(secret, revision) ==
    \/ revision = "reducing"
    \/ \E v \in {to_number(secret)} : ~is_zero(v) /\ less(v, ec_order)

\* What a backend call gives back: the success flag and the bytes left in
\* the buffer it modified (zero after a failure).
ec_result(ok, digits) ==
    [ok |-> ok, out |-> IF ok THEN to_secret(digits) ELSE null_hash]

\* ec_negate(out): out becomes n - out modulo n.
ec_negate(secret, revision) ==
    CHOOSE r \in { ec_result(ec_accepts(secret, revision),
                             IF is_zero(v) THEN v ELSE subtract(ec_order, v)) :
                   v \in {remainder(to_number(secret), ec_order)} } : TRUE

\* ec_add(out, tweak): out becomes out + tweak modulo n; a result of zero is
\* rejected.
ec_add(secret, tweak, revision) ==
    CHOOSE r \in { ec_result(/\ ec_accepts(secret, revision)
                             /\ less(to_number(tweak), ec_order)
                             /\ ~is_zero(v), v) :
                   v \in {remainder(sum(remainder(to_number(secret), ec_order),
                                        to_number(tweak)), ec_order)} } : TRUE

\* ec_multiply(out, tweak): out becomes out * tweak modulo n; a tweak of zero
\* is rejected.
ec_multiply(secret, tweak, revision) ==
    CHOOSE r \in { ec_result(/\ ec_accepts(secret, revision)
                             /\ less(to_number(tweak), ec_order)
                             /\ ~is_zero(to_number(tweak)), v) :
                   v \in {remainder(product(remainder(to_number(secret), ec_order),
                                            to_number(tweak)), ec_order)} } : TRUE

\* ---------------------------------------------------------------- ec_scalar

\* An ec_scalar holds its secret_.
ec_scalar(secret) == [secret_ |-> secret]

\* ec_scalar(): the zero scalar.
ec_scalar_default == ec_scalar(null_hash)

\* ec_scalar::operator-() const.
scalar_negate(self, revision) ==
    LET r == ec_negate(self.secret_, revision)
    IN  IF ~r.ok THEN ec_scalar_default ELSE ec_scalar(r.out)

\* The mutant of scalar_add: a failure returns the left operand.
scalar_add_keeps_left(scalar_left, scalar_right, revision) ==
    LET r == ec_add(scalar_left.secret_, scalar_right.secret_, revision)
    IN  IF ~r.ok THEN scalar_left ELSE ec_scalar(r.out)

\* operator+(left, right).
scalar_add(scalar_left, scalar_right, revision) ==
    LET r == ec_add(scalar_left.secret_, scalar_right.secret_, revision)
    IN  IF ~r.ok THEN ec_scalar_default ELSE ec_scalar(r.out)

\* The mutant of scalar_subtract: the right operand is not negated.
scalar_subtract_adds(scalar_left, scalar_right, revision) ==
    scalar_add(scalar_left, scalar_right, revision)

\* operator-(left, right): left + -right.
scalar_subtract(scalar_left, scalar_right, revision) ==
    scalar_add(scalar_left, scalar_negate(scalar_right, revision), revision)

\* operator*(left, right).
scalar_multiply(scalar_left, scalar_right, revision) ==
    LET r == ec_multiply(scalar_left.secret_, scalar_right.secret_, revision)
    IN  IF ~r.ok THEN ec_scalar_default ELSE ec_scalar(r.out)

\* operator==(left, right): the bytes compared from the last to the first.
scalar_equal(scalar_left, scalar_right) ==
    \A i \in 1..hash_size :
        scalar_left.secret_[hash_size + 1 - i] = scalar_right.secret_[hash_size + 1 - i]

\* ec_scalar::operator bool(): not equal to null_hash.
scalar_bool(self) == ~scalar_equal(self, ec_scalar(null_hash))

\* An int64_t is its sign and its magnitude, 8 base-256 digits, least
\* significant first: at most 2^63 - 1 when not negative, from 1 to 2^63 when
\* negative.
int64(negative, magnitude) == [negative |-> negative, magnitude |-> magnitude]

\* absolute(value), as a uint64_t.
absolute(value) == value.magnitude

\* write_8_bytes_big_endian.
write_8_bytes_big_endian(sink, v) == sink \o Reverse(v)

\* write_8_bytes_little_endian, for the mutant.
write_8_bytes_little_endian(sink, v) == sink \o v

\* The mutant of from_int64: the sign of the value is ignored.
from_int64_ignores_sign(value, revision) ==
    IF is_zero(value.magnitude)
    THEN [scalar |-> ec_scalar_default, negated |-> FALSE]
    ELSE [scalar  |-> ec_scalar(write_8_bytes_big_endian(Zeros(hash_size - uint64_size),
                                                         absolute(value))),
          negated |-> FALSE]

\* The mutant of from_int64: the magnitude is written little-endian.
from_int64_little_endian(value, revision) ==
    IF is_zero(value.magnitude)
    THEN [scalar |-> ec_scalar_default, negated |-> FALSE]
    ELSE LET secret == write_8_bytes_little_endian(Zeros(hash_size - uint64_size),
                                                   absolute(value))
         IN  IF ~value.negative
             THEN [scalar |-> ec_scalar(secret), negated |-> FALSE]
             ELSE [scalar  |-> scalar_negate(ec_scalar(secret), revision),
                   negated |-> TRUE]

\* ec_scalar::from_int64(value): the scalar, and whether it took a negation
\* (a call of the backend).
from_int64(value, revision) ==
    IF is_zero(value.magnitude)
    THEN [scalar |-> ec_scalar_default, negated |-> FALSE]
    ELSE LET secret == write_8_bytes_big_endian(Zeros(hash_size - uint64_size),
                                                absolute(value))
         IN  IF ~value.negative
             THEN [scalar |-> ec_scalar(secret), negated |-> FALSE]
             ELSE [scalar  |-> scalar_negate(ec_scalar(secret), revision),
                   negated |-> TRUE]

\* operator==(int64_t left, const ec_scalar& right), and the other order.
scalar_equal_int64(value, scalar_right, revision) ==
    scalar_equal(from_int64(value, revision).scalar, scalar_right)

\* ------------------------------------------------------------------ inputs

\* The first reading of the wall clock, in seconds.
StartTime == 100

\* The clock ticks this many times a second (wall_clock::now() is finer than
\* the whole seconds of a header's timestamp).
TicksPerSecond == 2

\* Bytes following a complete header in the decoder's input, at most.
MaxPad == 1

\* A digest with 32 different bytes (a byte swap would show).
ascending == [i \in 1..hash_size |-> i]

descending == [i \in 1..hash_size |-> 200 - i]

\* Headers for the wire codec: the reference genesis header's integers and
\* integers and digests whose bytes all differ.
CodecHeaders ==
    { header_fields(v, p, m, 1231006505, b, n) :
        v \in {1, \h01020304}, p \in {null_hash, ascending},
        m \in {null_hash, descending}, b \in {\h1d00ffff}, n \in {0, 2083236893} }

\* Prefix lengths the decoder's input is cut to: inside and between fields.
CutSizes == {0, 3, 4, 20, 36, 68, 72, 76, 79}

\* Compact targets: zero (0 and a mantissa shifted out), one, below, at and
\* above the reference target, the largest that fit 256 bits, those that do
\* not, and negative ones.
DifficultyBits ==
    { 0, \h01000001, \h03000001, \h04000001, \h1c00ffff, \h1d00ffff, \h1d010000,
      \h207fffff, \h2100ffff, \h220000ff,
      \h21010000, \h22000100, \h23000001, \h7f000001, \h02800001, \h1d80ffff }

WorkBits == { 0, \h1d00ffff, \h207fffff, \h04800001, \h23000001 }

\* Proof-of-work limits: the reference (mainnet) limit and the widest target.
WorkLimits == { \h1d00ffff, \h207fffff }

\* Limits in seconds, and timestamps at and one second past "now + limit".
TimeLimits == { 0, 1 }

Timestamps == { StartTime, StartTime + 1, StartTime + 2 }

\* Headers for the checks: the nonce selects the proof hash.
WorkHeaders ==
    { header_fields(1, null_hash, null_hash, t, b, n) :
        t \in Timestamps, b \in WorkBits, n \in 0..3 }

\* The proof-of-work check alone: one timestamp.
PowHeaders == { g \in WorkHeaders : g.timestamp_ = StartTime }

\* The timestamp check alone: one proof hash.
TimeHeaders == { g \in WorkHeaders : g.nonce_ = 0 }

DifficultyHeaders ==
    { header_fields(1, null_hash, null_hash, t, b, n) :
        t \in {StartTime}, b \in DifficultyBits, n \in 0..3 }

\* Headers and chain states for accept: each check can pass or fail alone.
AcceptHeaders ==
    { header_fields(v, null_hash, null_hash, t, b, n) :
        v \in {1, 2}, t \in {StartTime, StartTime + 1},
        b \in {\h1d00ffff, \h1c00ffff}, n \in {0, 3} }

ChainStates ==
    [ conflicts : { {}, {proof_digests[1]} },
      minimum_block_version : {1, 2},
      median_time_past : {StartTime - 1, StartTime},
      work_required : {\h1d00ffff} ]

\* Headers for copies and assignments: all fields zero, the reference genesis
\* integers, and a header whose digests and bits differ from those.
ValueHeaders ==
    { header_fields(0, null_hash, null_hash, 0, 0, 0),
      header_fields(1, null_hash, null_hash, 1231006505, \h1d00ffff, 2083236893),
      header_fields(2, ascending, descending, 1231006506, \h1c00ffff, 1),
      header_fields(1, ascending, null_hash, 0, \h207fffff, 0) }

\* Scalars: the big-endian bytes of a small number k.
small_secret(k) == [i \in 1..hash_size |-> IF i = hash_size THEN k ELSE 0]

\* The bytes of n - k, for a small k.
order_minus(k) == to_secret(subtract(ec_order, to_number(small_secret(k))))

\* Raw bytes a scalar is made from: zero, small numbers, their negations, and
\* bytes that are not below the order: n itself and the largest 32 bytes.
Secrets ==
    { small_secret(0), small_secret(1), small_secret(5), order_minus(1), order_minus(5),
      to_secret(ec_order), [i \in 1..hash_size |-> 255] }

\* The raw bytes that are below the order (zero included).
ValidSecrets == { secret \in Secrets : less(to_number(secret), ec_order) }

\* Magnitudes of 64-bit integers: small ones, one whose bytes all differ,
\* 2^63 - 1 and 2^63.
small_magnitude(k) == [i \in 1..uint64_size |-> IF i = 1 THEN k ELSE 0]

Int64s ==
    { int64(FALSE, small_magnitude(0)) }
    \cup { int64(negative, magnitude) :
             negative \in BOOLEAN,
             magnitude \in { small_magnitude(1), small_magnitude(3), small_magnitude(5),
                             <<8, 7, 6, 5, 4, 3, 2, 1>>,
                             <<255, 255, 255, 255, 255, 255, 255, 127>> } }
    \cup { int64(TRUE, <<0, 0, 0, 0, 0, 0, 0, 128>>) }

\* Fewer of each, for the scalars a program reaches by arithmetic.
ReachSecrets == { small_secret(0), small_secret(1), order_minus(1), to_secret(ec_order) }

ReachInt64s ==
    { int64(FALSE, small_magnitude(0)), int64(FALSE, small_magnitude(1)),
      int64(TRUE, small_magnitude(1)) }

\* The threads that call into the header checks.
Threads == {1, 2}

\* The headers the threads check: each limit of either check decides one.
ThreadHeaders ==
    { header_fields(1, null_hash, null_hash, StartTime, \h1d00ffff, 0),
      header_fields(1, null_hash, null_hash, StartTime + 1, \h207fffff, 0) }

\* The calls a thread makes.
ThreadCalls == { "check", "is_invalid_proof_of_work", "is_invalid_timestamp" }

\* ------------------------------------------------------------------- state

VARIABLES
    h,          \* the header object
    wire,       \* the byte buffer the codec writes to and reads from
    sent,       \* the header wire was encoded from, and whether wire still
                \* starts with that whole encoding
    ret,        \* the last operation and what it returned
    pow_limit,  \* is_invalid_proof_of_work's static local
    two_hours,  \* is_invalid_timestamp's static local
    now,        \* wall_clock::now(), in ticks
    other,      \* a second header object: the source of copies and moves, and
                \* the header of the second thread
    threads,    \* the call each thread is in, and what it returned
    left,       \* an ec_scalar object, the left operand
    right,      \* an ec_scalar object, the right operand
    backend,    \* the revision of the curve backend the build links
    steps       \* the number of arithmetic assignments made to the scalars

vars ==
    <<h, wire, sent, ret, pow_limit, two_hours, now, other, threads, left, right, backend,
      steps>>

\* The variables of the header, which the operations of ec_scalar leave alone.
header_vars == <<h, wire, sent, pow_limit, two_hours, now, other, threads>>

\* The objects as constructed, the statics not yet initialised.
InitObjects ==
    /\ h = header_default
    /\ wire = <<>>
    /\ sent = [header |-> header_default, whole |-> FALSE]
    /\ ret = [op |-> "none"]
    /\ pow_limit = [set |-> FALSE, value |-> zero]
    /\ two_hours = [set |-> FALSE, value |-> 0]
    /\ now = StartTime * TicksPerSecond
    /\ other = header_default
    /\ threads = [t \in Threads |-> [pc |-> "idle"]]
    /\ left = ec_scalar_default
    /\ right = ec_scalar_default
    /\ steps = 0

Init ==
    /\ InitObjects
    /\ backend = "verifying"

\* The build links either revision of the backend.
InitScalar ==
    /\ InitObjects
    /\ backend \in Backends

\* ----------------------------------------------------------------- actions

\* header::header(): the default header.
ConstructDefault ==
    /\ h' = header_default
    /\ ret' = [op |-> "header()"]
    /\ UNCHANGED <<wire, sent, pow_limit, two_hours, now>>
    /\ UNCHANGED <<other, threads, left, right, backend, steps>>

\* header::header(version, ..., nonce) on one of the given field tuples.
Construct(headers) ==
    /\ \E g \in headers : h' = g
    /\ ret' = [op |-> "header"]
    /\ UNCHANGED <<wire, sent, pow_limit, two_hours, now>>
    /\ UNCHANGED <<other, threads, left, right, backend, steps>>

ConstructCodec == Construct(CodecHeaders)

ConstructWork == Construct(WorkHeaders)

ConstructPow == Construct(PowHeaders)

ConstructTime == Construct(TimeHeaders)

ConstructDifficulty == Construct(DifficultyHeaders)

ConstructAccept == Construct(AcceptHeaders)

\* header::to_data(): the header's encoding is written to the buffer.
ToData ==
    /\ wire' = to_data(h)
    /\ sent' = [header |-> h, whole |-> TRUE]
    /\ ret' = [op |-> "to_data"]
    /\ UNCHANGED <<h, pow_limit, two_hours, now>>
    /\ UNCHANGED <<other, threads, left, right, backend, steps>>

\* The buffer loses its tail (a short read, a truncated message).
Cut ==
    /\ \E n \in CutSizes :
         /\ n < Len(wire)
         /\ wire' = SubSeq(wire, 1, n)
    /\ sent' = [sent EXCEPT !.whole = FALSE]
    /\ ret' = [op |-> "cut"]
    /\ UNCHANGED <<h, pow_limit, two_hours, now>>
    /\ UNCHANGED <<other, threads, left, right, backend, steps>>

\* Bytes follow the header in the buffer (the rest of a block).
Pad ==
    /\ Len(wire) >= serialized_size
    /\ Len(wire) < serialized_size + MaxPad
    /\ wire' = Append(wire, 171)
    /\ ret' = [op |-> "pad"]
    /\ UNCHANGED <<h, sent, pow_limit, two_hours, now>>
    /\ UNCHANGED <<other, threads, left, right, backend, steps>>

\* header::header(reader&): the header is replaced by the one decoded.
FromData ==
    /\ h' = from_data(reader(wire))
    /\ ret' = [op |-> "from_data"]
    /\ UNCHANGED <<wire, sent, pow_limit, two_hours, now>>
    /\ UNCHANGED <<other, threads, left, right, backend, steps>>

\* header::difficulty().
Difficulty ==
    /\ ret' = [op |-> "difficulty", work |-> difficulty(h.bits_)]
    /\ UNCHANGED <<h, wire, sent, pow_limit, two_hours, now>>
    /\ UNCHANGED <<other, threads, left, right, backend, steps>>

\* The wall clock advances.
Tick ==
    /\ now < (StartTime + MaxTicks) * TicksPerSecond
    /\ now' = now + 1
    /\ UNCHANGED <<h, wire, sent, ret, pow_limit, two_hours>>
    /\ UNCHANGED <<other, threads, left, right, backend, steps>>

\* header::is_invalid_proof_of_work(limit, scrypt).
IsInvalidProofOfWork ==
    \E limit \in WorkLimits, scrypt \in BOOLEAN :
        LET r == is_invalid_proof_of_work(h, limit, scrypt, pow_limit)
        IN  /\ ret' = [op |-> "is_invalid_proof_of_work", limit |-> limit,
                       scrypt |-> scrypt, result |-> r.result,
                       consulted |-> r.consulted]
            /\ pow_limit' = r.static
            /\ UNCHANGED <<h, wire, sent, two_hours, now>>
            /\ UNCHANGED <<other, threads, left, right, backend, steps>>

\* header::is_invalid_timestamp(limit_seconds).
IsInvalidTimestamp ==
    \E limit \in TimeLimits :
        LET r == is_invalid_timestamp(h, limit, two_hours, now, TicksPerSecond)
        IN  /\ ret' = [op |-> "is_invalid_timestamp", limit |-> limit,
                       clock |-> now, result |-> r.result]
            /\ two_hours' = r.static
            /\ UNCHANGED <<h, wire, sent, pow_limit, now>>
            /\ UNCHANGED <<other, threads, left, right, backend, steps>>

\* header::check(timestamp_limit_seconds, proof_of_work_limit, scrypt). The
\* record keeps what the two checks return for this header at this instant
\* with the statics as they were when check was entered.
Check ==
    \E tlimit \in TimeLimits, plimit \in WorkLimits, scrypt \in BOOLEAN :
        LET r == check(h, tlimit, plimit, scrypt, pow_limit, two_hours, now,
                       TicksPerSecond)
        IN  /\ ret' = [op |-> "check", code |-> r.code,
                       pow_invalid |->
                           is_invalid_proof_of_work(h, plimit, scrypt, pow_limit).result,
                       time_invalid |->
                           is_invalid_timestamp(h, tlimit, two_hours, now,
                                                TicksPerSecond).result]
            /\ pow_limit' = r.pow_static
            /\ two_hours' = r.time_static
            /\ UNCHANGED <<h, wire, sent, now>>
            /\ UNCHANGED <<other, threads, left, right, backend, steps>>

\* header::accept(chain_state).
Accept ==
    \E state \in ChainStates :
        /\ ret' = [op |-> "accept", state |-> state, code |-> accept(h, state)]
        /\ UNCHANGED <<h, wire, sent, pow_limit, two_hours, now>>
        /\ UNCHANGED <<other, threads, left, right, backend, steps>>

\* The variables of ec_scalar, which the operations of header leave alone.
scalar_vars == <<left, right, backend, steps>>

ConstructValue == Construct(ValueHeaders)

\* The second header object is constructed: header::header().
ConstructOtherDefault ==
    /\ other' = header_default
    /\ ret' = [op |-> "other()"]
    /\ UNCHANGED <<h, wire, sent, pow_limit, two_hours, now, threads>>
    /\ UNCHANGED scalar_vars

\* The second header object is constructed: header::header(version, ..., nonce).
ConstructOther ==
    /\ \E g \in ValueHeaders : other' = g
    /\ ret' = [op |-> "other"]
    /\ UNCHANGED <<h, wire, sent, pow_limit, two_hours, now, threads>>
    /\ UNCHANGED scalar_vars

\* header::header(const header& other): h is constructed as a copy.
CopyConstruct ==
    /\ h' = header_copy(other)
    /\ ret' = [op |-> "header(const header&)"]
    /\ UNCHANGED <<other, wire, sent, pow_limit, two_hours, now, threads>>
    /\ UNCHANGED scalar_vars

\* header::header(header&& other): h is constructed by a move.
MoveConstruct ==
    /\ h' = header_move(other)
    /\ ret' = [op |-> "header(header&&)"]
    /\ UNCHANGED <<other, wire, sent, pow_limit, two_hours, now, threads>>
    /\ UNCHANGED scalar_vars

\* h = other.
CopyAssign ==
    /\ h' = copy_assign(h, other)
    /\ ret' = [op |-> "operator=(const header&)"]
    /\ UNCHANGED <<other, wire, sent, pow_limit, two_hours, now, threads>>
    /\ UNCHANGED scalar_vars

\* h = std::move(other).
MoveAssign ==
    /\ h' = move_assign(h, other)
    /\ ret' = [op |-> "operator=(header&&)"]
    /\ UNCHANGED <<other, wire, sent, pow_limit, two_hours, now, threads>>
    /\ UNCHANGED scalar_vars

\* header::hash().
Hash ==
    /\ ret' = [op |-> "hash", digest |-> hash(h)]
    /\ UNCHANGED <<h, other, wire, sent, pow_limit, two_hours, now, threads>>
    /\ UNCHANGED scalar_vars

\* h == other.
Equal ==
    /\ ret' = [op |-> "operator==", result |-> header_equal(h, other)]
    /\ UNCHANGED <<h, other, wire, sent, pow_limit, two_hours, now, threads>>
    /\ UNCHANGED scalar_vars

\* h != other.
NotEqual ==
    /\ ret' = [op |-> "operator!=", result |-> header_not_equal(h, other)]
    /\ UNCHANGED <<h, other, wire, sent, pow_limit, two_hours, now, threads>>
    /\ UNCHANGED scalar_vars

\* ec_scalar(const ec_secret&): one of the two scalars is made from raw bytes.
ScalarFromSecret(secrets) ==
    \E secret \in secrets, target \in {"left", "right"} :
        /\ left' = IF target = "left" THEN ec_scalar(secret) ELSE left
        /\ right' = IF target = "right" THEN ec_scalar(secret) ELSE right
        /\ ret' = [op |-> "ec_scalar(secret)"]
        /\ UNCHANGED <<backend, steps>>
        /\ UNCHANGED header_vars

\* ec_scalar(int64_t): one of the two scalars is made from an integer.
ScalarFromInt64(values) ==
    \E value \in values, target \in {"left", "right"} :
        \E made \in {from_int64(value, backend)} :
            /\ left' = IF target = "left" THEN made.scalar ELSE left
            /\ right' = IF target = "right" THEN made.scalar ELSE right
            /\ ret' = [op |-> "ec_scalar(int64)", value |-> value, target |-> target,
                       negated |-> made.negated]
            /\ UNCHANGED <<backend, steps>>
            /\ UNCHANGED header_vars

ConstructSecrets == ScalarFromSecret(Secrets)

ConstructInt64s == ScalarFromInt64(Int64s)

ConstructReachSecrets == ScalarFromSecret(ReachSecrets)

ConstructReachInt64s == ScalarFromInt64(ReachInt64s)

\* -left. The record keeps the operand, what the backend gave and the result.
Negate ==
    /\ ret' = [op |-> "negate", left |-> left, right |-> right,
               backend |-> ec_negate(left.secret_, backend),
               result |-> scalar_negate(left, backend)]
    /\ UNCHANGED <<left, right, backend, steps>>
    /\ UNCHANGED header_vars

\* left + right.
Add ==
    /\ ret' = [op |-> "add", left |-> left, right |-> right,
               backend |-> ec_add(left.secret_, right.secret_, backend),
               result |-> scalar_add(left, right, backend)]
    /\ UNCHANGED <<left, right, backend, steps>>
    /\ UNCHANGED header_vars

\* left - right.
Subtract ==
    /\ ret' = [op |-> "subtract", left |-> left, right |-> right,
               result |-> scalar_subtract(left, right, backend)]
    /\ UNCHANGED <<left, right, backend, steps>>
    /\ UNCHANGED header_vars

\* left * right.
Multiply ==
    /\ ret' = [op |-> "multiply", left |-> left, right |-> right,
               backend |-> ec_multiply(left.secret_, right.secret_, backend),
               result |-> scalar_multiply(left, right, backend)]
    /\ UNCHANGED <<left, right, backend, steps>>
    /\ UNCHANGED header_vars

\* left += right, left -= right, left *= right: *this = (*this op scalar).
AddAssign ==
    /\ steps < MaxSteps
    /\ left' = scalar_add(left, right, backend)
    /\ steps' = steps + 1
    /\ ret' = [op |-> "+="]
    /\ UNCHANGED <<right, backend>>
    /\ UNCHANGED header_vars

SubtractAssign ==
    /\ steps < MaxSteps
    /\ left' = scalar_subtract(left, right, backend)
    /\ steps' = steps + 1
    /\ ret' = [op |-> "-="]
    /\ UNCHANGED <<right, backend>>
    /\ UNCHANGED header_vars

MultiplyAssign ==
    /\ steps < MaxSteps
    /\ left' = scalar_multiply(left, right, backend)
    /\ steps' = steps + 1
    /\ ret' = [op |-> "*="]
    /\ UNCHANGED <<right, backend>>
    /\ UNCHANGED header_vars

\* right = left: ec_scalar::operator=(const ec_scalar&).
ScalarAssign ==
    /\ right' = left
    /\ ret' = [op |-> "="]
    /\ UNCHANGED <<left, backend, steps>>
    /\ UNCHANGED header_vars

\* value == right, for an integer and a scalar.
EqualInt64 ==
    \E value \in Int64s :
        /\ ret' = [op |-> "int64 == scalar", value |-> value,
                   result |-> scalar_equal_int64(value, right, backend)]
        /\ UNCHANGED <<left, right, backend, steps>>
        /\ UNCHANGED header_vars

\* The header a thread works on: the threads share no header.
thread_header(t) == IF t = 1 THEN h ELSE other

\* A thread constructs its header, between its calls.
ThreadConstruct ==
    \E t \in Threads, g \in ThreadHeaders :
        /\ threads[t].pc = "idle"
        /\ h' = IF t = 1 THEN g ELSE h
        /\ other' = IF t = 2 THEN g ELSE other
        /\ ret' = [op |-> "header", thread |-> t]
        /\ UNCHANGED <<wire, sent, pow_limit, two_hours, now, threads>>
        /\ UNCHANGED scalar_vars

\* A thread calls check, is_invalid_proof_of_work or is_invalid_timestamp on
\* its header with limits of its own.
ThreadCall ==
    \E t \in Threads, op \in ThreadCalls, plimit \in WorkLimits, tlimit \in TimeLimits, scrypt \in BOOLEAN :
        /\ threads[t].pc = "idle"
        /\ threads' = [threads EXCEPT ![t] =
                          [pc |-> IF op = "is_invalid_timestamp"
                                  THEN "time_static" ELSE "pow_static",
                           op |-> op, plimit |-> plimit, tlimit |-> tlimit,
                           scrypt |-> scrypt]]
        /\ UNCHANGED <<h, other, wire, sent, ret, pow_limit, two_hours, now>>
        /\ UNCHANGED scalar_vars

\* is_invalid_proof_of_work up to the initialization of its static local:
\* the first thread to arrive initializes it, under the guard of the static.
ThreadPowStatic ==
    \E t \in Threads :
        /\ threads[t].pc = "pow_static"
        /\ pow_limit' = is_invalid_proof_of_work(thread_header(t), threads[t].plimit,
                                                 threads[t].scrypt, pow_limit).static
        /\ threads' = [threads EXCEPT ![t].pc = "pow_body"]
        /\ UNCHANGED <<h, other, wire, sent, ret, two_hours, now>>
        /\ UNCHANGED scalar_vars

\* The rest of is_invalid_proof_of_work; within check, the timestamp check
\* follows when the proof of work is valid.
ThreadPowBody ==
    \E t \in { u \in Threads : threads[u].pc = "pow_body" } :
        \E r \in {is_invalid_proof_of_work(thread_header(t), threads[t].plimit,
                                           threads[t].scrypt, pow_limit)} :
            /\ threads' =
                 [threads EXCEPT ![t] =
                     IF threads[t].op = "is_invalid_proof_of_work"
                     THEN [pc |-> "done", op |-> threads[t].op,
                           plimit |-> threads[t].plimit, tlimit |-> threads[t].tlimit,
                           scrypt |-> threads[t].scrypt, clock |-> now,
                           result |-> r.result]
                     ELSE IF r.result
                     THEN [pc |-> "done", op |-> threads[t].op,
                           plimit |-> threads[t].plimit, tlimit |-> threads[t].tlimit,
                           scrypt |-> threads[t].scrypt, clock |-> now,
                           result |-> "invalid_proof_of_work"]
                     ELSE [threads[t] EXCEPT !.pc = "time_static"]]
            /\ UNCHANGED <<h, other, wire, sent, ret, pow_limit, two_hours, now>>
            /\ UNCHANGED scalar_vars

\* is_invalid_timestamp up to the initialization of its static local.
ThreadTimeStatic ==
    \E t \in Threads :
        /\ threads[t].pc = "time_static"
        /\ two_hours' = is_invalid_timestamp(thread_header(t), threads[t].tlimit,
                                             two_hours, now, TicksPerSecond).static
        /\ threads' = [threads EXCEPT ![t].pc = "time_body"]
        /\ UNCHANGED <<h, other, wire, sent, ret, pow_limit, now>>
        /\ UNCHANGED scalar_vars

\* The rest of is_invalid_timestamp, which reads the clock.
ThreadTimeBody ==
    \E t \in { u \in Threads : threads[u].pc = "time_body" } :
        \E r \in {is_invalid_timestamp(thread_header(t), threads[t].tlimit,
                                       two_hours, now, TicksPerSecond)} :
            /\ threads' =
                 [threads EXCEPT ![t] =
                     [pc |-> "done", op |-> threads[t].op,
                      plimit |-> threads[t].plimit, tlimit |-> threads[t].tlimit,
                      scrypt |-> threads[t].scrypt, clock |-> now,
                      result |-> IF threads[t].op = "is_invalid_timestamp"
                                 THEN r.result
                                 ELSE IF r.result THEN "futuristic_timestamp"
                                 ELSE "success"]]
            /\ UNCHANGED <<h, other, wire, sent, ret, pow_limit, two_hours, now>>
            /\ UNCHANGED scalar_vars


\* ---------------------------------------------------------- specifications

Next ==
    \/ ConstructDefault
    \/ ConstructCodec
    \/ ToData
    \/ Cut
    \/ Pad
    \/ FromData

\* The wire codec.
Spec == Init /\ [][Next]_vars

NextDifficulty == ConstructDifficulty \/ Difficulty

\* The difficulty of a header.
SpecDifficulty == Init /\ [][NextDifficulty]_vars

NextCheck ==
    \/ ConstructWork
    \/ Tick
    \/ IsInvalidProofOfWork
    \/ IsInvalidTimestamp
    \/ Check

\* The intrinsic checks.
SpecCheck == Init /\ [][NextCheck]_vars

NextPow == ConstructPow \/ IsInvalidProofOfWork

\* The proof-of-work check.
SpecPow == Init /\ [][NextPow]_vars

NextTimestamp == ConstructTime \/ Tick \/ IsInvalidTimestamp

\* The timestamp check.
SpecTimestamp == Init /\ [][NextTimestamp]_vars

NextAccept == ConstructAccept \/ Accept

\* The contextual checks.
SpecAccept == Init /\ [][NextAccept]_vars

NextValue ==
    \/ ConstructDefault
    \/ ConstructValue
    \/ ConstructOtherDefault
    \/ ConstructOther
    \/ CopyConstruct
    \/ MoveConstruct
    \/ CopyAssign
    \/ MoveAssign
    \/ Hash
    \/ Difficulty

\* Construction, copies and assignments of headers.
SpecValue == Init /\ [][NextValue]_vars

NextScalar ==
    \/ ConstructSecrets
    \/ Negate
    \/ Add
    \/ Subtract
    \/ Multiply

\* The arithmetic of ec_scalar on scalars made from raw bytes.
SpecScalar == InitScalar /\ [][NextScalar]_vars

NextInt64 == ConstructInt64s \/ EqualInt64

\* Scalars made from integers.
SpecInt64 == InitScalar /\ [][NextInt64]_vars

NextReach ==
    \/ ConstructReachSecrets
    \/ ConstructReachInt64s
    \/ ScalarAssign
    \/ AddAssign
    \/ SubtractAssign
    \/ MultiplyAssign

\* The scalars a program can reach.
SpecReach == InitScalar /\ [][NextReach]_vars

\* Two threads, each with a header of its own, call the checks once.
NextThreads ==
    \/ ThreadConstruct
    \/ ThreadCall
    \/ ThreadPowStatic
    \/ ThreadPowBody
    \/ ThreadTimeStatic
    \/ ThreadTimeBody

SpecThreads == Init /\ [][NextThreads]_vars

\* Two headers are constructed, assigned and compared.
NextEqual ==
    \/ ConstructDefault
    \/ ConstructValue
    \/ ConstructOtherDefault
    \/ ConstructOther
    \/ CopyAssign
    \/ Equal
    \/ NotEqual

SpecEqual == Init /\ [][NextEqual]_vars

\* ------------------------------------------------------------------ claims

\* C1: every is_invalid_proof_of_work call judges the header's target against
\* the limit passed to that call: a target above this call's limit is
\* reported invalid, and a target that is non-zero, not overflowed, not above
\* this call's limit and not below the proof hash is reported valid.
C1_PowUsesThisCallsLimit ==
    ret.op = "is_invalid_proof_of_work" =>
        LET bits   == compact(h.bits_)
            limit  == compact(ret.limit).value
        IN  /\ greater(bits.value, limit) => ret.result
            /\ ( /\ ~bits.overflowed
                 /\ ~is_zero(bits.value)
                 /\ ~greater(bits.value, limit)
                 /\ ~less(bits.value, proof_hash(h, ret.scrypt)) ) => ~ret.result

\* C2: every is_invalid_timestamp call returns true exactly when the
\* header's timestamp is strictly later than the current time plus the
\* limit_seconds passed to that call.
C2_TimestampUsesThisCallsLimit ==
    ret.op = "is_invalid_timestamp" =>
        (ret.result <=>
            h.timestamp_ * TicksPerSecond > ret.clock + ret.limit * TicksPerSecond)

\* C3: check returns invalid_proof_of_work whenever the proof-of-work check
\* fails (also when the timestamp is futuristic), futuristic_timestamp only
\* when the proof-of-work check passes and the timestamp check fails, and
\* success exactly when both pass.
C3_CheckOrder ==
    ret.op = "check" =>
        /\ ret.pow_invalid => ret.code = "invalid_proof_of_work"
        /\ ret.code = "futuristic_timestamp" => (~ret.pow_invalid /\ ret.time_invalid)
        /\ ret.code = "success" <=> (~ret.pow_invalid /\ ~ret.time_invalid)

\* C3 witness: both checks fail and check reports the proof of work.
C3_Witness ==
    /\ ret.op = "check"
    /\ ret.pow_invalid
    /\ ret.time_invalid
    /\ ret.code = "invalid_proof_of_work"

\* C4: accept returns the first applicable code in the order checkpoints,
\* version, timestamp (equality with the median time past is rejected),
\* bits, success.
C4_AcceptOrder ==
    ret.op = "accept" =>
        LET state    == ret.state
            conflict == hash(h) \in state.conflicts
            low      == h.version_ < state.minimum_block_version
            early    == h.timestamp_ <= state.median_time_past
            work     == h.bits_ # state.work_required
        IN  /\ ret.code = "checkpoints_failed" <=> conflict
            /\ ret.code = "invalid_block_version" <=> (~conflict /\ low)
            /\ ret.code = "timestamp_too_early" <=> (~conflict /\ ~low /\ early)
            /\ ret.code = "incorrect_proof_of_work" <=>
                   (~conflict /\ ~low /\ ~early /\ work)
            /\ ret.code = "success" <=> (~conflict /\ ~low /\ ~early /\ ~work)

\* C4 witness: a checkpoint conflict together with a version that is too low
\* reports the checkpoint.
C4_Witness ==
    /\ ret.op = "accept"
    /\ hash(h) \in ret.state.conflicts
    /\ h.version_ < ret.state.minimum_block_version
    /\ ret.code = "checkpoints_failed"

C6_RoundTrip ==
    (ret.op = "from_data" /\ sent.whole) =>
        /\ header_equal(h, sent.header)
        /\ h.version_ = sent.header.version_
        /\ h.previous_block_hash_ = sent.header.previous_block_hash_
        /\ h.merkle_root_ = sent.header.merkle_root_
        /\ h.timestamp_ = sent.header.timestamp_
        /\ h.bits_ = sent.header.bits_
        /\ h.nonce_ = sent.header.nonce_

\* C6 witness: a header whose integers and digests have distinct bytes has
\* been encoded and decoded again.
C6_Witness ==
    /\ ret.op = "from_data"
    /\ sent.whole
    /\ sent.header.version_ = \h01020304
    /\ sent.header.previous_block_hash_ = ascending
    /\ sent.header.merkle_root_ = descending
    /\ sent.header.nonce_ = 2083236893

\* C7: the encoding of every header, the default one included, is 80 bytes:
\* version at offset 0, previous_block_hash at 4, merkle_root at 36,
\* timestamp at 68, bits at 72 and nonce at 76, the integers little-endian
\* and the digests byte for byte; serialized_size() is 80.
C7_Layout ==
    ret.op = "to_data" =>
        /\ Len(wire) = 80
        /\ serialized_size = 80
        /\ \A i \in 0..3 :
             /\ wire[1 + i]  = (h.version_ \div Pow256(i)) % 256
             /\ wire[69 + i] = (h.timestamp_ \div Pow256(i)) % 256
             /\ wire[73 + i] = (h.bits_ \div Pow256(i)) % 256
             /\ wire[77 + i] = (h.nonce_ \div Pow256(i)) % 256
        /\ \A i \in 1..32 :
             /\ wire[4 + i]  = h.previous_block_hash_[i]
             /\ wire[36 + i] = h.merkle_root_[i]

\* C7 witness: the default header has been encoded.
C7_Witness ==
    /\ ret.op = "to_data"
    /\ h = header_default
    /\ wire = Zeros(80)

\* Arithmetic without a width, to state a quotient: digit sequences as
\* above, as long as the value needs.

\* a + 1 without wrapping: one digit longer than a.
successor(a) == normalize(widen(a, Len(a) + 1), 1)

\* 2^256, in as many digits as the product of two successors.
two_to_256 == [i \in 1..(2 * uint256_size + 2) |-> IF i = uint256_size + 1 THEN 1 ELSE 0]

\* q = floor(2^256 / (t + 1)): q * (t + 1) <= 2^256 < (q + 1) * (t + 1).
is_floor_quotient(q, t) ==
    /\ ~less(two_to_256, product(widen(q, uint256_size + 1), successor(t)))
    /\ less(two_to_256, product(successor(q), successor(t)))

\* C8 as claimed: for every bits value whose target t is not overflowed,
\* difficulty() is floor(2^256 / (t + 1)); for every overflowed one it is 0.
C8_DifficultyIsQuotient ==
    ret.op = "difficulty" =>
        IF compact(h.bits_).overflowed
        THEN ret.work.value = zero
        ELSE is_floor_quotient(ret.work.value, compact(h.bits_).value)

\* C8 as amended: for every bits value whose target t is not overflowed and
\* not zero, difficulty() is floor(2^256 / (t + 1)); for a zero target the
\* quotient 2^256 does not fit the width and difficulty() is 0; for every
\* overflowed target it is 0.
C8_DifficultyIsQuotientAboveZero ==
    ret.op = "difficulty" =>
        IF compact(h.bits_).overflowed \/ is_zero(compact(h.bits_).value)
        THEN ret.work.value = zero
        ELSE is_floor_quotient(ret.work.value, compact(h.bits_).value)

\* C8 witness: the difficulty of the reference target (bits 0x1d00ffff) has
\* been computed: 0x100010001.
C8_Witness ==
    /\ ret.op = "difficulty"
    /\ h.bits_ = \h1d00ffff
    /\ ret.work.value = [i \in 1..uint256_size |-> IF i \in {1, 3, 5} THEN 1 ELSE 0]

C10_OverflowOrZeroIsInvalid ==
    ( /\ ret.op = "is_invalid_proof_of_work"
      /\ compact(h.bits_).overflowed \/ is_zero(compact(h.bits_).value) ) =>
        (ret.result /\ ~ret.consulted)

\* C10 witness: a header whose exponent shifts the mantissa past 256 bits,
\* with the lowest proof hash, has been reported invalid.
C10_Witness ==
    /\ ret.op = "is_invalid_proof_of_work"
    /\ h.bits_ = \h23000001
    /\ is_zero(proof_hash(h, ret.scrypt))
    /\ ret.result

\* The scalar's bytes are below the order (zero included).
is_valid_scalar(scalar) == less(to_number(scalar.secret_), ec_order)

\* The scalar is the zero scalar and converts to false.
is_zero_scalar(scalar) == scalar = ec_scalar_default /\ ~scalar_bool(scalar)

\* C11: negate, add and multiply return the zero scalar when the backend
\* reports failure and the backend's output bytes when it reports success,
\* for all scalars (those not below the order included); the operands are
\* left as they were.
C11_FailureGivesZero ==
    ret.op \in {"negate", "add", "multiply"} =>
        /\ ret.result = ec_scalar(IF ret.backend.ok THEN ret.backend.out ELSE null_hash)
        /\ left = ret.left
        /\ right = ret.right

\* C11 witness: 1 + (n - 1) has been added; the backend reported failure and
\* the sum is the zero scalar, the operands as they were.
C11_Witness ==
    /\ ret.op = "add"
    /\ left = ec_scalar(small_secret(1))
    /\ right = ec_scalar(order_minus(1))
    /\ ~ret.backend.ok
    /\ ret.result = ec_scalar_default

\* C12: for every valid scalar a (zero included), a + -a and a - a are the
\* zero scalar and convert to false.
C12_InverseIsZero ==
    is_valid_scalar(left) =>
        /\ (ret.op = "subtract" /\ scalar_equal(ret.left, ret.right)) =>
               is_zero_scalar(ret.result)
        /\ (ret.op = "add" /\ scalar_equal(ret.right, scalar_negate(ret.left, backend))) =>
               is_zero_scalar(ret.result)

\* C12 witness: 5 - 5 has been computed and is the zero scalar.
C12_Witness ==
    /\ ret.op = "subtract"
    /\ left = ec_scalar(small_secret(5))
    /\ right = ec_scalar(small_secret(5))
    /\ is_zero_scalar(ret.result)

made_scalar == IF ret.target = "left" THEN left ELSE right

\* -value, for a value that is not the minimum.
opposite(value) == int64(~value.negative, value.magnitude)

\* C14: from_integer(0) is the zero scalar, made without a call of the
\* backend, and converts to false; for v > 0, from_integer(-v) equals
\* -from_integer(v) and from_integer(v) differs from from_integer(-v); an
\* integer compares with a scalar as from_integer of it does.
C14_IntegerScalars ==
    /\ ret.op = "ec_scalar(int64)" =>
        /\ is_zero(ret.value.magnitude) =>
               (is_zero_scalar(made_scalar) /\ ~ret.negated)
        /\ (~is_zero(ret.value.magnitude) /\ ~ret.value.negative) =>
               /\ scalar_equal(from_int64(opposite(ret.value), backend).scalar,
                               scalar_negate(made_scalar, backend))
               /\ ~scalar_equal(made_scalar, from_int64(opposite(ret.value), backend).scalar)
    /\ ret.op = "int64 == scalar" =>
        (ret.result <=> scalar_equal(from_int64(ret.value, backend).scalar, right))

\* C14 witness: the scalar 3 has been made from the integer 3.
C14_Witness ==
    /\ ret.op = "ec_scalar(int64)"
    /\ ret.value = int64(FALSE, small_magnitude(3))
    /\ made_scalar = ec_scalar(small_secret(3))
    /\ ~scalar_equal(made_scalar, from_int64(int64(TRUE, small_magnitude(3)), backend).scalar)

\* C15: two reachable scalars that denote the same integer modulo the order
\* compare equal, and a reachable scalar that denotes zero modulo the order
\* is the zero scalar and converts to false.
C15_OneEncodingPerResidue ==
    /\ remainder(to_number(left.secret_), ec_order)
           = remainder(to_number(right.secret_), ec_order) => scalar_equal(left, right)
    /\ is_zero(remainder(to_number(left.secret_), ec_order)) => is_zero_scalar(left)
    /\ is_zero(remainder(to_number(right.secret_), ec_order)) => is_zero_scalar(right)

\* The 32 bytes that hold the magnitude big-endian in the last eight.
magnitude_secret(value) ==
    [i \in 1..hash_size |->
        IF i <= hash_size - uint64_size THEN 0 ELSE value.magnitude[hash_size + 1 - i]]

\* C20: for v > 0, from_integer(v) has bytes 0..23 zero and bytes 24..31 the
\* big-endian magnitude; for v < 0, the minimum included, it is the negation
\* of the scalar that holds the magnitude that way.
C20_IntegerBytes ==
    (ret.op = "ec_scalar(int64)" /\ ~is_zero(ret.value.magnitude)) =>
        IF ~ret.value.negative
        THEN /\ \A i \in 1..(hash_size - uint64_size) : made_scalar.secret_[i] = 0
             /\ \A i \in 1..uint64_size :
                    made_scalar.secret_[hash_size + 1 - i] = ret.value.magnitude[i]
        ELSE made_scalar = scalar_negate(ec_scalar(magnitude_secret(ret.value)), backend)

\* C20 witness: the scalar made from the minimum integer is n - 2^63.
C20_Witness ==
    /\ ret.op = "ec_scalar(int64)"
    /\ ret.value = int64(TRUE, <<0, 0, 0, 0, 0, 0, 0, 128>>)
    /\ made_scalar = ec_scalar(to_secret(subtract(ec_order,
           [i \in 1..uint256_size |-> IF i = uint64_size THEN 128 ELSE 0])))

\* The operations that make h from the second header.
copies ==
    { "header(const header&)", "header(header&&)",
      "operator=(const header&)", "operator=(header&&)" }

\* C17: after constructions, copies and assignments, hash() is the double
\* SHA-256 of the header's current encoding and difficulty() the difficulty
\* of its current bits: after h is made from another header they are those of
\* that header, and two headers with one encoding have one hash, whatever
\* their valid flags.
C17_HashAndDifficultyComputed ==
    /\ ret.op = "hash" => ret.digest = sha256_hash(sha256_hash(to_data(h)))
    /\ ret.op = "difficulty" => ret.work.value = difficulty(h.bits_).value
    /\ ret.op \in copies =>
        /\ hash(h) = sha256_hash(sha256_hash(to_data(other)))
        /\ difficulty(h.bits_).value = difficulty(other.bits_).value
    /\ to_data(h) = to_data(other) => hash(h) = hash(other)

\* C17 witness: the hash of a header that is not valid has been computed and
\* is the hash of a valid header with the same encoding.
C17_Witness ==
    /\ ret.op = "hash"
    /\ ~h.valid_
    /\ other.valid_
    /\ to_data(h) = to_data(other)
    /\ ret.digest = hash(other)

\* C18: the default header has six zero fields and is not valid; a header
\* made from field values is valid, whatever the values; copy and move
\* construction and assignment carry the source's fields and valid flag.
C18_ValidFlag ==
    /\ ret.op = "header()" =>
        h = [version_ |-> 0, previous_block_hash_ |-> Zeros(32),
             merkle_root_ |-> Zeros(32), timestamp_ |-> 0, bits_ |-> 0,
             nonce_ |-> 0, valid_ |-> FALSE]
    /\ ret.op = "header" => h.valid_
    /\ ret.op \in copies =>
        /\ h.version_ = other.version_
        /\ h.previous_block_hash_ = other.previous_block_hash_
        /\ h.merkle_root_ = other.merkle_root_
        /\ h.timestamp_ = other.timestamp_
        /\ h.bits_ = other.bits_
        /\ h.nonce_ = other.nonce_
        /\ h.valid_ = other.valid_

\* C18 witness: a header has been copy-constructed from the default header
\* and is not valid.
C18_Witness ==
    /\ ret.op = "header(const header&)"
    /\ ~other.valid_
    /\ ~h.valid_

\* C19: for a header whose target is not zero, not overflowed and not above
\* the limit of the call, is_invalid_proof_of_work returns true exactly when
\* the proof hash exceeds the target: the scrypt hash of the encoding with
\* scrypt set, the double SHA-256 of it otherwise.
C19_ProofHashDecides ==
    ( /\ ret.op = "is_invalid_proof_of_work"
      /\ ~compact(h.bits_).overflowed
      /\ ~is_zero(compact(h.bits_).value)
      /\ ~greater(compact(h.bits_).value, compact(ret.limit).value) ) =>
        (ret.result <=>
            greater(to_uint256(IF ret.scrypt THEN scrypt_hash(to_data(h))
                               ELSE sha256_hash(sha256_hash(to_data(h)))),
                    compact(h.bits_).value))

\* What a thread's call returns when no other call has been made in the
\* process: the statics are those the call itself initializes.
alone(t) ==
    LET fresh_pow  == [set |-> FALSE, value |-> zero]
        fresh_time == [set |-> FALSE, value |-> 0]
        call       == threads[t]
    IN  IF call.op = "is_invalid_proof_of_work"
        THEN is_invalid_proof_of_work(thread_header(t), call.plimit, call.scrypt,
                                      fresh_pow).result
        ELSE IF call.op = "is_invalid_timestamp"
        THEN is_invalid_timestamp(thread_header(t), call.tlimit, fresh_time,
                                  call.clock, TicksPerSecond).result
        ELSE check(thread_header(t), call.tlimit, call.plimit, call.scrypt,
                   fresh_pow, fresh_time, call.clock, TicksPerSecond).code

\* C16: when two threads call check, is_invalid_proof_of_work or
\* is_invalid_timestamp on headers of their own with limits of their own,
\* each call returns what it would return alone, whichever thread ran first.
C16_ThreadsIndependent ==
    \A t \in Threads :
        threads[t].pc = "done" => threads[t].result = alone(t)

\* C21: two headers compare equal exactly when they differ in nothing but,
\* at most, the valid flag, so the default header equals the header made from
\* six zero fields; operator!= returns the negation of operator==.
C21_EqualityIgnoresValid ==
    /\ ret.op = "operator==" =>
        /\ ret.result <=> ([h EXCEPT !.valid_ = other.valid_] = other)
        /\ ( /\ h = header_default
             /\ other = header_fields(0, null_hash, null_hash, 0, 0, 0) )
            => ret.result
    /\ ret.op = "operator!=" => (ret.result <=> ~header_equal(h, other))

\* C21 witness: a header that is not valid has compared equal to a valid one.
C21_Witness ==
    /\ ret.op = "operator=="
    /\ ret.result
    /\ ~h.valid_
    /\ other.valid_

====
